---------------------------- MODULE Spec2Model ----------------------------
(***************************************************************************)
(* A model of the cube core: the Environment reset/step/close loop with    *)
(* Tool dispatch (environment.py, tool.py), the type-tagged serialization  *)
(* of TypedBaseModel and Content (base.py, core.py), Content.to_message,   *)
(* Observation.__add__ and the Trajectory log (core.py).                   *)
(*                                                                         *)
(* Task and the concrete tool methods are abstract in the source: what     *)
(* they return or raise is chosen nondeterministically from small sets.    *)
(* Every Environment method is one action; `calls` is the list of the      *)
(* collaborator calls that method made, in order, and `ret` is what it     *)
(* returned or raised.                                                     *)
(***************************************************************************)
EXTENDS Naturals, Sequences, FiniteSets

VARIABLES
    task,   \* the Environment's task: its class attributes
    tool,   \* the Environment's tool: its action space, its methods, its resources
    op,     \* the Environment method the caller is in ("idle" between calls)
    args,   \* the action list that method was called with (step)
    calls,  \* the calls on task and tool the method made, in order
    ret,    \* what the method returned or raised
    phase,  \* where the calls made so far leave the caller in the lifecycle
            \* unready -> ready -> terminal -> closed; the Environment has no such field
    traj,       \* a Trajectory
    trajOp,     \* the Trajectory method called last
    trajRet,    \* what last_env_step returned or raised
    obj,        \* a TypedBaseModel instance
    declared,   \* the declared type it is deserialized against
    wire,       \* the caller's mapping: what serializing obj gave
    back,       \* what deserializing wire gave
    validations, \* how many times wire was deserialized
    content,    \* a Content instance
    messages,   \* what the calls of content.to_message() returned, in order
    heap,       \* the Observation objects: the contents list of each
    bind,       \* the caller's variables a, b, c: the object each refers to
    last        \* the last operation on the Observation objects

envVars == <<task, tool, op, args, calls, ret, phase>>

trajVars == <<traj, trajOp, trajRet>>

typeVars == <<obj, declared, wire, back, validations>>

msgVars == <<content, messages>>

obsVars == <<heap, bind, last>>

vars == <<envVars, trajVars, typeVars, msgVars, obsVars>>

-----------------------------------------------------------------------------
(* Bounds *)

\* longest action list passed to one step call
MaxActions == 3

\* most records appended to the trajectory
MaxSteps == 4

\* most contents of an observation that is serialized
MaxContents == 2

\* most deserializations of one serialized mapping
MaxValidations == 2

-----------------------------------------------------------------------------
(* Python values *)

None == "None"

\* a Python dict is a set of <<key, value>> pairs
EmptyDict == {}

\* reward is a float; the model keeps it in tenths (0 is 0.0, 10 is 1.0)
DefaultReward == 0

\* In the Environment and the Tool a Python value is written as a string: a
\* text stands for the str that holds it, and the values that are no str are
\* written by the reserved names below (None, "True" and "False" among them).
Int0 == "int(0)"

Int5 == "int(5)"

EmptyList == "list()"

ListValue == "list(a)"

EmptyMapping == "dict()"

MappingValue == "dict(k=v)"

ModelValue == "BaseModel(model1)"

Images == {"img1"}

ImageValue(img) == "Image(" \o img \o ")"

\* base64 of the PNG bytes of an image, as text
B64Png(img) == "base64(png(" \o img \o "))"

\* _image_prefix
ImagePrefix == "data:image/png;base64,"

\* the texts that start with the image prefix: the encoding of an image, and
\* a text that encodes none
PrefixedTexts == {ImagePrefix \o B64Png(img) : img \in Images} \cup {ImagePrefix \o "hello"}

\* type(v)
TypeOf(v) ==
    CASE v = None -> "NoneType"
      [] v \in {Int0, Int5} -> "int"
      [] v \in {"True", "False"} -> "bool"
      [] v \in {EmptyList, ListValue} -> "list"
      [] v \in {EmptyMapping, MappingValue} -> "dict"
      [] v = ModelValue -> "BaseModel"
      [] v \in {ImageValue(img) : img \in Images} -> "Image"
      [] OTHER -> "str"

-----------------------------------------------------------------------------
(* core.py: the data model *)

Action(id, name) == [id |-> id, name |-> name, arguments |-> EmptyDict]

Content(data, tool_call_id) ==
    [tool_call_id |-> tool_call_id, name |-> None, data |-> data]

\* data: str | dict | list | BaseModel | Image.Image
DataTypes == {"str", "dict", "list", "BaseModel", "Image"}

\* What Content(data=v) makes of v: deserialize_data runs before the field is
\* validated and turns a text with the image prefix into the image it encodes;
\* a value of none of the declared types is a ValidationError.
validate_data(v) ==
    IF TypeOf(v) = "str" /\ v \in PrefixedTexts
    THEN IF \E img \in Images : v = ImagePrefix \o B64Png(img)
         THEN [raised |-> FALSE,
               value |-> ImageValue(CHOOSE img \in Images : v = ImagePrefix \o B64Png(img))]
         ELSE [raised |-> TRUE, error |-> "UnidentifiedImageError"]
    ELSE IF TypeOf(v) \in DataTypes
    THEN [raised |-> FALSE, value |-> v]
    ELSE [raised |-> TRUE, error |-> "ValidationError"]

Observation(contents) == [contents |-> contents]

FromText(text) == Observation(<<Content(text, None)>>)

EnvironmentOutput(obs, reward, done, info) ==
    [obs |-> obs, reward |-> reward, done |-> done, info |-> info]

\* EnvironmentOutput(obs=obs, info=info): reward and done take their defaults
EnvironmentOutputDefaults(obs, info) ==
    EnvironmentOutput(obs, DefaultReward, FALSE, info)

-----------------------------------------------------------------------------
(* environment.py: the reserved stop action *)

STOP_ACTION == [name |-> "final_step", description |-> "Stop the task execution."]

StopMessage == "Task finished by the agent."

-----------------------------------------------------------------------------
(* The tools and tasks an Environment is built from *)

\* attributes every Python class and instance inherits from object
ObjectAttrs == {"__repr__"}

ActionNames == {"click", "stub", "ghost", STOP_ACTION.name, "__repr__"}

\* Concrete Tool subclasses: `members` are the members of the action_space
\* protocol, `methods` the methods the tool class defines.
ToolClasses ==
    { [cls |-> "PlainTool", members |-> {"click", "stub"},
       methods |-> {"click"}],
      [cls |-> "StopTool", members |-> {"click", "stub", STOP_ACTION.name},
       methods |-> {"click", STOP_ACTION.name}],
      [cls |-> "DeclaredStopTool", members |-> {"click", "stub", STOP_ACTION.name},
       methods |-> {"click"}],
      [cls |-> "UndeclaredStopTool", members |-> {"click", "stub"},
       methods |-> {"click", STOP_ACTION.name}] }

\* obs_postprocess: the base class returns obs as it is; a task may override it
PostprocessHooks == {"identity", "redact"}

\* what a tool method can do when it is invoked
MethodOutcomes ==
    { [kind |-> "return", value |-> "clicked"],
      [kind |-> "return", value |-> None],
      [kind |-> "return", value |-> Int5],
      [kind |-> "raise", value |-> "boom"] }

\* what validate_task can return
ValidateResults ==
    { [reward |-> 10, info |-> {<<"success", "yes">>}],
      [reward |-> 0, info |-> EmptyDict] }

\* what setup can return
SetupResults ==
    { [obs |-> FromText("start"), info |-> EmptyDict],
      [obs |-> Observation(<<>>), info |-> {<<"goal", "g1">>}] }


-----------------------------------------------------------------------------
(* tool.py: Tool *)

\* getattr(x, name, None) is truthy: x defines the attribute or inherits it
HasAttr(attrs, name) == name \in attrs \cup ObjectAttrs

\* the names get_protocol_members(self.action_space) enumerates
get_protocol_members(t) == t.members

\* ValueError(f"Action {action.name} is not a part of {self.action_space}.")
UnknownAction(t, name) ==
    "Action " \o name \o " is not a part of " \o t.cls \o "ActionSpace."

\* ValueError(f"Action {action.name} is not implemented in {self.__class__.__name__}.")
NotImplementedAction(t, name) ==
    "Action " \o name \o " is not implemented in " \o t.cls \o "."

\* get_action_method without the check against the action space
get_action_method_SkipsProtocol(t, action) ==
    IF ~HasAttr(t.methods, action.name)
    THEN [raised |-> TRUE, error |-> NotImplementedAction(t, action.name)]
    ELSE [raised |-> FALSE, fn |-> action.name]

get_action_method(t, action) ==
    IF ~HasAttr(t.members, action.name)
    THEN [raised |-> TRUE, error |-> UnknownAction(t, action.name)]
    ELSE IF ~HasAttr(t.methods, action.name)
    THEN [raised |-> TRUE, error |-> NotImplementedAction(t, action.name)]
    ELSE [raised |-> FALSE, fn |-> action.name]

\* the names get_actions builds a schema for
get_actions(t) == get_protocol_members(t)

\* the values whose Python truth value is false
Falsy == {None, "", Int0, "False", EmptyList, EmptyMapping}

\* f"Error executing action {action.name}: {e}"
ErrorMessage(name, e) == "Error executing action " \o name \o ": " \o e

\* fn(**action.arguments) or "Success", an exception rendered as text
ActionResult(action, outcome) ==
    IF outcome.kind = "raise"
    THEN ErrorMessage(action.name, outcome.value)
    ELSE IF outcome.value \in Falsy THEN "Success" ELSE outcome.value

\* Observation(contents=[Content(data=action_result, tool_call_id=action.id)]):
\* the Content is validated when it is made, outside the try
ResultObservation(action, action_result) ==
    LET d == validate_data(action_result) IN
    IF d.raised
    THEN [raised |-> TRUE, error |-> d.error]
    ELSE [raised |-> FALSE, obs |-> Observation(<<Content(d.value, action.id)>>)]

\* execute_action with no try/except around the call of the method
execute_action_Propagates(t, action, outcome) ==
    LET m == get_action_method(t, action) IN
    IF m.raised
    THEN [raised |-> TRUE, error |-> m.error]
    ELSE IF outcome.kind = "raise"
    THEN [raised |-> TRUE, error |-> outcome.value]
    ELSE ResultObservation(action, ActionResult(action, outcome))

\* execute_action with get_action_method called inside the try
execute_action_ContainsLookup(t, action, outcome) ==
    LET m == get_action_method(t, action) IN
    IF m.raised
    THEN ResultObservation(action, ErrorMessage(action.name, m.error))
    ELSE ResultObservation(action, ActionResult(action, outcome))

\* outcome: what the tool method does if it is invoked
execute_action(t, action, outcome) ==
    LET m == get_action_method(t, action) IN
    IF m.raised
    THEN [raised |-> TRUE, error |-> m.error]
    ELSE ResultObservation(action, ActionResult(action, outcome))

\* what the attribute getattr(self, name) can do when called: a method of the
\* tool class does anything, object.__repr__ returns the repr text
OutcomesOf(t, name) ==
    IF name \in t.methods
    THEN MethodOutcomes
    ELSE {[kind |-> "return", value |-> "<" \o t.cls \o " object>"]}

-----------------------------------------------------------------------------
(* core.py: Task hooks *)

\* Task.obs_postprocess, or an override of it
obs_postprocess(tk, obs) ==
    IF tk.postprocess = "identity"
    THEN obs
    ELSE Observation(Append(obs.contents, Content("[redacted]", None)))

-----------------------------------------------------------------------------
(* environment.py: Environment *)

NoObs == Observation(<<>>)

\* One call the Environment made: pos is the position of the action it was made
\* for (0: none), val how it ended, data the text it returned or raised, obs the
\* observation it was given or returned, info the mapping it returned.
Call(name, pos, val, data, obs, info) ==
    [call |-> name, pos |-> pos, val |-> val, data |-> data, obs |-> obs, info |-> info]

\* a call with nothing but its name and how it ended
Called(name, pos, val) == Call(name, pos, val, None, NoObs, EmptyDict)

PyBool(b) == IF b THEN "True" ELSE "False"

RECURSIVE Flatten_Reversed(_)
\* a merge that puts the contents of the later results first
Flatten_Reversed(results) ==
    IF results = <<>> THEN <<>>
    ELSE Flatten_Reversed(Tail(results)) \o Head(results).contents

RECURSIVE Flatten(_)
\* [c for o in tool_results for c in o.contents]
Flatten(results) ==
    IF results = <<>> THEN <<>>
    ELSE Head(results).contents \o Flatten(Tail(results))

\* action.name == STOP_ACTION.name and self.task.accept_agent_stop()
StopAccepted(action, accept) == action.name = STOP_ACTION.name /\ accept

\* an accepted stop that appends the message and leaves done as it was
AcceptStop_NoDone(st) ==
    [st EXCEPT !.tool_results = Append(@, FromText(StopMessage))]

\* the branch of an accepted stop: the stop message is appended and done is set
AcceptStop(st) ==
    [st EXCEPT !.tool_results = Append(@, FromText(StopMessage)), !.done = TRUE]

\* the locals of step before the loop
StepLocals == [tool_results |-> <<>>, done |-> FALSE, calls |-> <<>>,
               raised |-> FALSE, error |-> None]

\* what tool.execute_action(action) leaves in the list of calls: the tool method,
\* if get_action_method found one, and how execute_action itself ended
DispatchCalls(t, action, i, o, r) ==
    (IF get_action_method(t, action).raised THEN <<>>
     ELSE <<Call("tool_method", i, o.kind, o.value, NoObs, EmptyDict)>>)
    \o <<Call("execute_action", i, IF r.raised THEN "raised" ELSE "returned",
              IF r.raised THEN r.error ELSE None,
              IF r.raised THEN NoObs ELSE r.obs, EmptyDict)>>

RECURSIVE StepLoop(_, _, _, _)
\* the for loop of step from position i on: the set of ways it can end, one for
\* each answer of accept_agent_stop and each outcome of a tool method
StepLoop(t, actions, i, st) ==
    IF i > Len(actions) THEN {st}
    ELSE
    LET action == actions[i]
        \* `and` evaluates accept_agent_stop() only for the stop action's name
        asked == action.name = STOP_ACTION.name
        answers == IF asked THEN BOOLEAN ELSE {FALSE}
    IN  UNION {
          LET s1 == IF asked
                    THEN [st EXCEPT !.calls =
                            Append(@, Called("accept_agent_stop", i, PyBool(accept)))]
                    ELSE st
          IN  IF StopAccepted(action, accept)
              THEN {AcceptStop(s1)}
              ELSE UNION {
                     LET r == execute_action(t, action, o)
                         s2 == [s1 EXCEPT !.calls = @ \o DispatchCalls(t, action, i, o, r)]
                     IN  IF r.raised
                         THEN {[s2 EXCEPT !.raised = TRUE, !.error = r.error]}
                         ELSE StepLoop(t, actions, i + 1,
                                [s2 EXCEPT !.tool_results = Append(@, r.obs)])
                     : o \in OutcomesOf(t, action.name) }
          : accept \in answers }

\* validation gated on validate_per_step alone
ShouldValidate_PerStepOnly(tk, done) == tk.validate_per_step

\* self.task.validate_per_step or done
ShouldValidate(tk, done) == tk.validate_per_step \/ done

\* done left as the loop set it, whatever finished() would answer
DoneAfterLoop_StopOnly(done, fin) == done

\* done = done or self.task.finished()
DoneAfterLoop(done, fin) == done \/ fin

\* step after the loop: the set of ways it can end, one for each answer of
\* finished and each result of validate_task
StepFinish(tk, st) ==
    LET obs == Observation(Flatten(st.tool_results))
        post == obs_postprocess(tk, obs)
        hook == Call("obs_postprocess", 0, "returned", None, obs, EmptyDict)
    IN  UNION {
          LET done == DoneAfterLoop(st.done, fin)
              \* `or` evaluates finished() only when done is still false
              c1 == IF st.done THEN st.calls
                    ELSE Append(st.calls, Called("finished", 0, PyBool(fin)))
          IN  IF ShouldValidate(tk, done)
              THEN { [ret |-> [kind |-> "output",
                               out |-> EnvironmentOutput(post, v.reward, done, v.info)],
                      calls |-> c1 \o <<Call("validate_task", 0, "returned", None,
                                             obs, v.info), hook>>]
                     : v \in ValidateResults }
              ELSE { [ret |-> [kind |-> "output",
                               out |-> EnvironmentOutput(post, DefaultReward, done,
                                                         EmptyDict)],
                      calls |-> Append(c1, hook)] }
          : fin \in (IF st.done THEN {FALSE} ELSE BOOLEAN) }

\* every way step(actions) can run
StepRuns(tk, t, actions) ==
    UNION { IF st.raised
            THEN {[ret |-> [kind |-> "raised", error |-> st.error], calls |-> st.calls]}
            ELSE StepFinish(tk, st)
            : st \in StepLoop(t, actions, 1, StepLocals) }

\* reset with task.setup called before tool.reset
ResetRun_SetupFirst(s) ==
    [calls |-> <<Call("task.setup", 0, "returned", None, s.obs, s.info),
                 Called("tool.reset", 0, "returned")>>,
     ret |-> [kind |-> "output", out |-> EnvironmentOutputDefaults(s.obs, s.info)]]

\* reset: tool.reset(), then task.setup(tool), whose result s is wrapped
ResetRun(s) ==
    [calls |-> <<Called("tool.reset", 0, "returned"),
                 Call("task.setup", 0, "returned", None, s.obs, s.info)>>,
     ret |-> [kind |-> "output", out |-> EnvironmentOutputDefaults(s.obs, s.info)]]

\* close with tool.close called before task.teardown
CloseRun_ToolFirst(t, teardownRaises) ==
    IF teardownRaises
    THEN [calls |-> <<Called("tool.close", 0, "returned"),
                      Call("task.teardown", 0, "raised", "released", NoObs, EmptyDict)>>,
          ret |-> [kind |-> "raised", error |-> "teardown failed"],
          held |-> FALSE]
    ELSE [calls |-> <<Called("tool.close", 0, "returned"),
                      Call("task.teardown", 0, "returned", "released", NoObs, EmptyDict)>>,
          ret |-> [kind |-> "returned"],
          held |-> FALSE]

\* close: task.teardown(), then tool.close(); val of the teardown call tells
\* whether the tool held its resources when teardown ran
CloseRun(t, teardownRaises) ==
    LET seen == IF t.held THEN "held" ELSE "released" IN
    IF teardownRaises
    THEN [calls |-> <<Call("task.teardown", 0, "raised", seen, NoObs, EmptyDict)>>,
          ret |-> [kind |-> "raised", error |-> "teardown failed"],
          held |-> t.held]
    ELSE [calls |-> <<Call("task.teardown", 0, "returned", seen, NoObs, EmptyDict),
                      Called("tool.close", 0, "returned")>>,
          ret |-> [kind |-> "returned"],
          held |-> FALSE]

-----------------------------------------------------------------------------
(* What a caller can pass to step *)

CallIds == <<"call_1", "call_2", "call_3", "call_4", "call_5", "call_6">>

\* the actions of one agent output: named as in names, with tool-call ids or without
ActionList(names, withIds) ==
    [i \in 1..Len(names) |-> Action(IF withIds THEN CallIds[i] ELSE None, names[i])]

NameLists == UNION {[1..n -> ActionNames] : n \in 0..MaxActions}

\* step takes one Action, with a tool-call id or without, or a list of them:
\* the actions of a list carry their ids, and a list of one action comes
\* without them too
StepInputs ==
    {[single |-> TRUE, action |-> Action(id, n)] : n \in ActionNames, id \in {None, CallIds[1]}}
    \cup {[single |-> FALSE, actions |-> ActionList(ns, TRUE)] : ns \in NameLists}
    \cup {[single |-> FALSE, actions |-> ActionList(ns, FALSE)] : ns \in [1..1 -> ActionNames]}

\* actions = [action] if isinstance(action, Action) else action
Normalize(input) == IF input.single THEN <<input.action>> ELSE input.actions

-----------------------------------------------------------------------------
(* The Environment's methods as actions *)

NoReturn == [kind |-> "none"]

Idle == op = "idle"

EnvInit ==
    /\ task \in [validate_per_step : BOOLEAN, postprocess : PostprocessHooks]
    /\ tool \in {[cls |-> c.cls, members |-> c.members, methods |-> c.methods,
                  held |-> TRUE] : c \in ToolClasses}
    /\ op = "idle"
    /\ args = <<>>
    /\ calls = <<>>
    /\ ret = NoReturn
    /\ phase = "unready"

Reset ==
    /\ Idle
    /\ \E s \in SetupResults :
        /\ op' = "reset"
        /\ args' = <<>>
        /\ tool' = [tool EXCEPT !.held = TRUE]
        /\ task' = task
        /\ calls' = ResetRun(s).calls
        /\ ret' = ResetRun(s).ret
        /\ phase' = "ready"
    /\ UNCHANGED <<trajVars, typeVars, msgVars, obsVars>>

\* a step that goes through only between reset and the first done
Step_ReadyOnly ==
    /\ Idle
    /\ phase = "ready"
    /\ \E input \in StepInputs :
        \E r \in StepRuns(task, tool, Normalize(input)) :
            /\ op' = "step"
            /\ args' = Normalize(input)
            /\ calls' = r.calls
            /\ ret' = r.ret
            /\ phase' = IF r.ret.kind = "output" /\ r.ret.out.done
                         THEN "terminal" ELSE phase
            /\ UNCHANGED <<task, tool>>
    /\ UNCHANGED <<trajVars, typeVars, msgVars, obsVars>>

Step ==
    /\ Idle
    /\ \E input \in StepInputs :
        \E r \in StepRuns(task, tool, Normalize(input)) :
            /\ op' = "step"
            /\ args' = Normalize(input)
            /\ calls' = r.calls
            /\ ret' = r.ret
            /\ phase' = IF phase = "ready" /\ r.ret.kind = "output" /\ r.ret.out.done
                         THEN "terminal" ELSE phase
            /\ UNCHANGED <<task, tool>>
    /\ UNCHANGED <<trajVars, typeVars, msgVars, obsVars>>

Close ==
    /\ Idle
    /\ \E teardownRaises \in BOOLEAN :
        LET r == CloseRun(tool, teardownRaises) IN
        /\ op' = "close"
        /\ args' = <<>>
        /\ task' = task
        /\ tool' = [tool EXCEPT !.held = r.held]
        /\ calls' = r.calls
        /\ ret' = r.ret
        /\ phase' = IF teardownRaises THEN phase ELSE "closed"
    /\ UNCHANGED <<trajVars, typeVars, msgVars, obsVars>>

\* the caller takes what the method returned or raised
Return ==
    /\ ~Idle
    /\ op' = "idle"
    /\ args' = <<>>
    /\ calls' = <<>>
    /\ ret' = NoReturn
    /\ UNCHANGED <<task, tool, phase>>
    /\ UNCHANGED <<trajVars, typeVars, msgVars, obsVars>>

\* no trajectory, no serialization, no message and no Observation object in the
\* Environment's specification
NoTrajectory ==
    /\ traj = [steps |-> <<>>, metadata |-> EmptyDict]
    /\ trajOp = "none"
    /\ trajRet = NoReturn

NoTypes ==
    /\ obj = NoReturn
    /\ declared = "none"
    /\ wire = NoReturn
    /\ back = NoReturn
    /\ validations = 0

NoMessages ==
    /\ content = NoReturn
    /\ messages = <<>>

NoObservations ==
    /\ heap = <<>>
    /\ bind = NoReturn
    /\ last = NoReturn

Init == EnvInit /\ NoTrajectory /\ NoTypes /\ NoMessages /\ NoObservations

Next == Reset \/ Step \/ Close \/ Return

Spec == Init /\ [][Next]_vars

-----------------------------------------------------------------------------
(* Reading the list of calls of the last method *)

IsExecute(c) == c.call = "execute_action"

\* the execute_action calls of the last method, in order
Executed == SelectSeq(calls, IsExecute)

CallsOf(name) == {j \in DOMAIN calls : calls[j].call = name}

\* accept_agent_stop() answered `val` for the action at position i
StopAnswered(i, val) ==
    \E j \in DOMAIN calls :
        calls[j].call = "accept_agent_stop" /\ calls[j].pos = i /\ calls[j].val = val

\* the action at position i was handed to tool.execute_action, which ended `val`
DispatchEnded(i, val) ==
    \E j \in DOMAIN calls :
        calls[j].call = "execute_action" /\ calls[j].pos = i /\ calls[j].val = val

Dispatched(i) ==
    \E j \in DOMAIN calls : calls[j].call = "execute_action" /\ calls[j].pos = i

\* execute_action found a method for the action at position i and called it
MethodCalled(i) ==
    \E j \in DOMAIN calls : calls[j].call = "tool_method" /\ calls[j].pos = i

\* the loop of step got to position i
Processed(i) == \E j \in DOMAIN calls : calls[j].pos = i

\* the contents the observation merged by step held before post-processing
MergedAre(contents) ==
    \E j \in CallsOf("obs_postprocess") : calls[j].obs.contents = contents

-----------------------------------------------------------------------------
(* C1: Stop short-circuit.  When step reaches a stop action at position k and
   the task accepts the stop, exactly the actions before k were dispatched to
   the tool, in order; the merged observation is their results followed by the
   text "Task finished by the agent."; step returns done = true; and nothing
   at a position after k is dispatched or even looked at. *)
C1_StopShortCircuit ==
    op = "step" =>
        \A k \in DOMAIN args :
            StopAnswered(k, "True") =>
                /\ args[k].name = "final_step"
                /\ Len(Executed) = k - 1
                /\ \A i \in 1..(k - 1) :
                       Executed[i].pos = i /\ Executed[i].val = "returned"
                /\ \A j \in DOMAIN calls : calls[j].pos <= k
                /\ ~Dispatched(k)
                /\ MergedAre([i \in 1..k |->
                       IF i < k THEN Executed[i].obs.contents[1]
                       ELSE [tool_call_id |-> "None", name |-> "None",
                             data |-> "Task finished by the agent."]])
                /\ ret.kind = "output"
                /\ ret.out.done = TRUE

\* step([click, final_step, click]) with the stop accepted
C1_Witness ==
    /\ op = "step"
    /\ Len(args) = 3
    /\ args[1].name = "click" /\ args[2].name = "final_step" /\ args[3].name = "click"
    /\ StopAnswered(2, "True")
    /\ DispatchEnded(1, "returned")
    /\ ret.kind = "output"

-----------------------------------------------------------------------------
(* C2: Validation gating.  In a step call that returns, validate_task is
   called once if validate_per_step is true or the returned done is true, and
   not at all otherwise; with validate_per_step false and done false the
   returned reward and info are the defaults 0.0 and {}. *)
C2_ValidationGating ==
    (op = "step" /\ ret.kind = "output") =>
        /\ Cardinality(CallsOf("validate_task")) =
               (IF task.validate_per_step \/ ret.out.done THEN 1 ELSE 0)
        /\ (~task.validate_per_step /\ ~ret.out.done) =>
               (ret.out.reward = 0 /\ ret.out.info = {})
        /\ \A j \in CallsOf("validate_task") : ret.out.info = calls[j].info

\* a step that ended done without per-step validation and was validated once
C2_Witness ==
    /\ op = "step"
    /\ ret.kind = "output"
    /\ ~task.validate_per_step
    /\ ret.out.done
    /\ Cardinality(CallsOf("validate_task")) = 1
    /\ ret.out.reward = 10

-----------------------------------------------------------------------------
(* C3: Dispatch error containment.  When the tool method an action resolves
   to raises, execute_action returns: its Observation holds one Content, whose
   tool_call_id is the action's id and whose data is
   "Error executing action {name}: {error}"; and the loop goes on to the next
   action of the same step. *)
C3_ErrorContained ==
    op = "step" =>
        \A j \in CallsOf("tool_method") :
            calls[j].val = "raise" =>
                LET i == calls[j].pos IN
                /\ j + 1 \in CallsOf("execute_action")
                /\ calls[j + 1].pos = i
                /\ calls[j + 1].val = "returned"
                /\ calls[j + 1].obs.contents =
                       << [tool_call_id |-> args[i].id, name |-> "None",
                           data |-> "Error executing action " \o args[i].name
                                    \o ": " \o calls[j].data] >>
                /\ i < Len(args) => Processed(i + 1)
                /\ (i < Len(args) /\ args[i + 1].name # "final_step") => Dispatched(i + 1)

\* the first action's method raised and the second action was still dispatched
C3_Witness ==
    /\ op = "step"
    /\ Len(args) >= 2
    /\ \E j \in CallsOf("tool_method") : calls[j].pos = 1 /\ calls[j].val = "raise"
    /\ args[1].id = "call_1"
    /\ DispatchEnded(2, "returned")

-----------------------------------------------------------------------------
(* C4, as amended: Stop rejection.  When accept_agent_stop() answers false, the
   stop action is handed to tool.execute_action like any other action: no
   stop message is appended for it, the loop goes on after it, and it does not
   set done.  It fails with the UnknownAction error when the action space
   does not declare "final_step" (whether or not the tool has such a method),
   with the NotImplemented error when the action space declares it and the
   tool has no such method, and is executed when both hold. *)

\* what a rejected stop at position i does, whatever the tool is
RejectedStopIsDispatched(i) ==
    /\ args[i].name = "final_step"
    /\ Dispatched(i)
    /\ DispatchEnded(i, "returned") =>
           /\ i < Len(args) => Processed(i + 1)
           /\ \A j \in CallsOf("obs_postprocess") :
                  /\ Len(calls[j].obs.contents) >= i
                  /\ calls[j].obs.contents[i].tool_call_id = args[i].id
                  /\ \E e \in DOMAIN calls :
                         /\ calls[e].call = "execute_action"
                         /\ calls[e].pos = i
                         /\ calls[j].obs.contents[i] = calls[e].obs.contents[1]
    /\ (/\ ret.kind = "output"
        /\ \A k \in DOMAIN args : ~StopAnswered(k, "True")
        /\ \A j \in CallsOf("finished") : calls[j].val = "False")
           => ~ret.out.done

C4_StopRejected ==
    op = "step" =>
        \A i \in DOMAIN args :
            StopAnswered(i, "False") =>
                /\ RejectedStopIsDispatched(i)
                /\ "final_step" \notin tool.members =>
                       /\ ~MethodCalled(i)
                       /\ DispatchEnded(i, "raised")
                       /\ ret = [kind |-> "raised",
                                 error |-> UnknownAction(tool, "final_step")]
                /\ ("final_step" \in tool.members /\ "final_step" \notin tool.methods) =>
                       /\ ~MethodCalled(i)
                       /\ DispatchEnded(i, "raised")
                       /\ ret = [kind |-> "raised",
                                 error |-> NotImplementedAction(tool, "final_step")]
                /\ ("final_step" \in tool.members /\ "final_step" \in tool.methods) =>
                       MethodCalled(i)

(* C4 as it was stated: a rejected stop fails with the UnknownAction error
   unless the tool implements it. *)
C4_AsStated ==
    op = "step" =>
        \A i \in DOMAIN args :
            StopAnswered(i, "False") =>
                /\ RejectedStopIsDispatched(i)
                /\ "final_step" \notin tool.methods =>
                       /\ ~MethodCalled(i)
                       /\ DispatchEnded(i, "raised")
                       /\ ret = [kind |-> "raised",
                                 error |-> UnknownAction(tool, "final_step")]
                /\ "final_step" \in tool.methods => MethodCalled(i)

\* a rejected stop that the tool executed, followed by a dispatched action
C4_Witness ==
    /\ op = "step"
    /\ Len(args) = 2
    /\ StopAnswered(1, "False")
    /\ DispatchEnded(1, "returned")
    /\ args[2].name = "click"
    /\ DispatchEnded(2, "returned")
    /\ ret.kind = "output"
    /\ ~ret.out.done

-----------------------------------------------------------------------------
(* C5: Dispatch-time contract violations are surfaced.  When get_action_method
   fails for an action that step dispatches, execute_action raises that error
   and so does step: the method is not called, no Content is made of the
   error, nothing is done after it (no validate_task, no obs_postprocess) and
   step returns no EnvironmentOutput, whatever was executed before. *)
C5_LookupErrorSurfaced ==
    op = "step" =>
        \A j \in CallsOf("execute_action") :
            LET m == get_action_method(tool, args[calls[j].pos]) IN
            m.raised =>
                /\ calls[j].val = "raised"
                /\ calls[j].obs.contents = <<>>
                /\ j = Len(calls)
                /\ \A h \in CallsOf("tool_method") : calls[h].pos # calls[j].pos
                /\ ret = [kind |-> "raised", error |-> m.error]
                /\ CallsOf("validate_task") = {}
                /\ CallsOf("obs_postprocess") = {}

\* step([click, ghost]): click was executed, then the lookup of ghost failed
C5_Witness ==
    /\ op = "step"
    /\ Len(args) = 2
    /\ args[2].name = "ghost"
    /\ DispatchEnded(1, "returned")
    /\ DispatchEnded(2, "raised")
    /\ ret.kind = "raised"

-----------------------------------------------------------------------------
(* C6: get_action_method fails with the UnknownAction error for every name
   that is not a member of the action space, with the NotImplemented error
   for a member the tool has no method for, and returns a method only for a
   name that is declared and implemented; every name it accepts is one that
   get_actions enumerates. *)
C6_LookupFollowsActionSpace ==
    op = "step" =>
        \A j \in CallsOf("execute_action") :
            LET n == args[calls[j].pos].name IN
            /\ n \notin get_protocol_members(tool) =>
                   (calls[j].val = "raised" /\ calls[j].data = UnknownAction(tool, n))
            /\ (n \in get_protocol_members(tool) /\ n \notin tool.methods) =>
                   (calls[j].val = "raised" /\ calls[j].data = NotImplementedAction(tool, n))
            /\ calls[j].val = "returned" =>
                   (n \in get_actions(tool) /\ n \in tool.methods)

-----------------------------------------------------------------------------
(* C8: Environment.close calls task.teardown first and tool.close after it:
   when teardown runs, the tool is as it was before the call (close has not
   released it), and no tool.close comes before the teardown. *)
C8_TeardownBeforeClose ==
    [][ (op = "idle" /\ op' = "close") =>
            /\ calls'[1].call = "task.teardown"
            /\ calls'[1].data = (IF tool.held THEN "held" ELSE "released")
            /\ Cardinality({j \in DOMAIN calls' : calls'[j].call = "task.teardown"}) = 1
            /\ \A j \in DOMAIN calls' : calls'[j].call = "tool.close" => j = 2
      ]_vars

\* a close that ran teardown on a tool still holding its resources, then closed it
C8_Witness ==
    /\ op = "close"
    /\ Len(calls) = 2
    /\ calls[1].call = "task.teardown" /\ calls[1].data = "held"
    /\ calls[2].call = "tool.close"
    /\ ~tool.held

-----------------------------------------------------------------------------
(* C9: Environment.reset calls tool.reset, then task.setup, and nothing else;
   it returns an EnvironmentOutput with the observation and the info setup
   returned, reward 0.0 and done false. *)
C9_ResetWrapsSetup ==
    op = "reset" =>
        /\ Len(calls) = 2
        /\ calls[1].call = "tool.reset"
        /\ calls[2].call = "task.setup"
        /\ ret.kind = "output"
        /\ ret.out.obs = calls[2].obs
        /\ ret.out.info = calls[2].info
        /\ ret.out.reward = 0
        /\ ret.out.done = FALSE

\* reset where setup returned (Observation.from_text("start"), {})
C9_Witness ==
    /\ op = "reset"
    /\ ret.kind = "output"
    /\ ret.out = [obs |-> [contents |-> << [tool_call_id |-> "None", name |-> "None",
                                            data |-> "start"] >>],
                  reward |-> 0, done |-> FALSE, info |-> {}]

-----------------------------------------------------------------------------
(* core.py: Trajectory *)

\* an instance with its runtime class
New(cls, fields) == [cls |-> cls, fields |-> fields]

isinstance(x, cls) == x.cls = cls

AgentOutput(actions) == [actions |-> actions]

\* the records a caller appends
TrajectoryItems ==
    { New("EnvironmentOutput", EnvironmentOutputDefaults(FromText(t), EmptyDict))
        : t \in {"obs_a", "obs_b"} }
    \cup { New("AgentOutput", AgentOutput(<<Action(None, n)>>)) : n \in {"click", "final_step"} }

\* self.steps.append(item)
append(tr, item) == [tr EXCEPT !.steps = Append(@, item)]

NotFound == "No EnvironmentOutput found in the trajectory."

RECURSIVE FirstEnvFrom(_, _)
\* a scan from the front, which returns the oldest EnvironmentOutput
FirstEnvFrom(steps, i) ==
    IF i > Len(steps) THEN [kind |-> "raised", error |-> NotFound]
    ELSE IF isinstance(steps[i], "EnvironmentOutput")
    THEN [kind |-> "returned", value |-> steps[i]]
    ELSE FirstEnvFrom(steps, i + 1)

last_env_step_Oldest(tr) == FirstEnvFrom(tr.steps, 1)

RECURSIVE LastEnvFrom(_, _)
\* for step in reversed(self.steps), from index i down
LastEnvFrom(steps, i) ==
    IF i = 0 THEN [kind |-> "raised", error |-> NotFound]
    ELSE IF isinstance(steps[i], "EnvironmentOutput")
    THEN [kind |-> "returned", value |-> steps[i]]
    ELSE LastEnvFrom(steps, i - 1)

last_env_step(tr) == LastEnvFrom(tr.steps, Len(tr.steps))

TrajInit ==
    /\ traj = [steps |-> <<>>, metadata |-> EmptyDict]
    /\ trajOp = "new"
    /\ trajRet = NoReturn

TrajAppend ==
    /\ Len(traj.steps) < MaxSteps
    /\ \E item \in TrajectoryItems : traj' = append(traj, item)
    /\ trajOp' = "append"
    /\ trajRet' = NoReturn
    /\ UNCHANGED <<envVars, typeVars, msgVars, obsVars>>

TrajLastEnvStep ==
    /\ trajOp' = "last_env_step"
    /\ trajRet' = last_env_step(traj)
    /\ traj' = traj
    /\ UNCHANGED <<envVars, typeVars, msgVars, obsVars>>

\* no Environment in the other specifications
NoEnvironment ==
    /\ task = [validate_per_step |-> FALSE, postprocess |-> "identity"]
    /\ tool = [cls |-> "none", members |-> {}, methods |-> {}, held |-> FALSE]
    /\ op = "none"
    /\ args = <<>>
    /\ calls = <<>>
    /\ ret = NoReturn
    /\ phase = "none"

TrajNext == TrajAppend \/ TrajLastEnvStep

InitTrajectory == TrajInit /\ NoEnvironment /\ NoTypes /\ NoMessages /\ NoObservations

SpecTrajectory == InitTrajectory /\ [][TrajNext]_vars

-----------------------------------------------------------------------------
(* C10: After any appends, last_env_step returns the EnvironmentOutput
   appended most recently, whatever AgentOutput records follow it, and raises
   the NotFound error exactly when the trajectory holds no EnvironmentOutput;
   it leaves the trajectory as it is.  append adds one record at the end and
   leaves the earlier records as they were. *)
C10_LastEnvStep ==
    [][ /\ trajOp' = "append" =>
               /\ Len(traj'.steps) = Len(traj.steps) + 1
               /\ SubSeq(traj'.steps, 1, Len(traj.steps)) = traj.steps
        /\ trajOp' = "last_env_step" =>
               LET envs == {i \in DOMAIN traj.steps :
                                traj.steps[i].cls = "EnvironmentOutput"}
               IN  /\ traj' = traj
                   /\ envs = {} <=>
                          trajRet' = [kind |-> "raised",
                                      error |-> "No EnvironmentOutput found in the trajectory."]
                   /\ envs # {} =>
                          \E i \in envs :
                              /\ \A j \in envs : j <= i
                              /\ trajRet' = [kind |-> "returned", value |-> traj.steps[i]]
      ]_vars

\* two different EnvironmentOutputs, then an AgentOutput: the second is returned
C10_Witness ==
    /\ trajOp = "last_env_step"
    /\ Len(traj.steps) = 3
    /\ traj.steps[1].cls = "EnvironmentOutput"
    /\ traj.steps[2].cls = "EnvironmentOutput"
    /\ traj.steps[1] # traj.steps[2]
    /\ traj.steps[3].cls = "AgentOutput"
    /\ trajRet = [kind |-> "returned", value |-> traj.steps[2]]

-----------------------------------------------------------------------------
(* Python values that are serialized *)

\* A value with its Python type.  A str is kept as a sequence of pieces, so
\* that a prefix can be tested and cut off; a dict is a function of its keys.
Str(pieces) == [py |-> "str", text |-> pieces]

PyImage(img) == [py |-> "Image", image |-> img]

PyDict(items) == [py |-> "dict", items |-> items]

PyList(elems) == [py |-> "list", elems |-> elems]

\* an instance of some other pydantic BaseModel
PyModel(m) == [py |-> "BaseModel", model |-> m]

\* str.startswith(prefix)
StartsWith(text, prefix) == Len(text) >= 1 /\ text[1] = prefix

\* d without key k, as after d.pop(k)
Pop(d, k) == [key \in DOMAIN d \ {k} |-> d[key]]

-----------------------------------------------------------------------------
(* core.py: Content, field by field *)

\* data.save(byte_arr, format="PNG") and the base64 text with the prefix;
\* a value that is no image has no save
as_base64_image_str(data) ==
    IF data.py = "Image"
    THEN [kind |-> "returned", value |-> Str(<<ImagePrefix, B64Png(data.image)>>)]
    ELSE [kind |-> "raised",
          error |-> "AttributeError: '" \o data.py \o "' object has no attribute 'save'"]

serialize_data(data) ==
    IF data.py = "str"
    THEN [kind |-> "returned", value |-> data]
    ELSE as_base64_image_str(data)

\* Image.open(io.BytesIO(base64.b64decode(v))): the image the text encodes, if any
DecodeImage(pieces) ==
    IF \E img \in Images : pieces = <<B64Png(img)>>
    THEN [kind |-> "returned",
          value |-> PyImage(CHOOSE img \in Images : pieces = <<B64Png(img)>>)]
    ELSE [kind |-> "raised", error |-> "UnidentifiedImageError"]

deserialize_data(v) ==
    IF v.py = "str" /\ StartsWith(v.text, ImagePrefix)
    THEN DecodeImage(Tail(v.text))
    ELSE [kind |-> "returned", value |-> v]

-----------------------------------------------------------------------------
(* base.py: TypedBaseModel *)

\* the module each class is defined in
ModuleOf ==
    [cls \in {"TypedBaseModel", "Action", "Content", "Observation", "EnvironmentOutput"}
        |-> IF cls = "TypedBaseModel" THEN "cube.base" ELSE "cube.core"]

Classes == DOMAIN ModuleOf

\* f"{self.__class__.__module__}.{self.__class__.__name__}"
TypePath(cls) == ModuleOf[cls] \o "." \o cls

\* importlib.import_module(module_name), getattr(module, class_name)
Resolve(type_path) ==
    IF \E cls \in Classes : TypePath(cls) = type_path
    THEN CHOOSE cls \in Classes : TypePath(cls) = type_path
    ELSE None

\* data["_type"] = ...: the mapping data with the tag of the runtime class
WithType(V, data) ==
    [key \in DOMAIN data \cup {"_type"} |->
        IF key = "_type" THEN TypePath(V.cls) ELSE data[key]]

\* the first of the results rs that raised, or all their values as a list
Gather(rs) ==
    IF \E i \in DOMAIN rs : rs[i].kind = "raised"
    THEN LET first == CHOOSE i \in DOMAIN rs :
                          /\ rs[i].kind = "raised"
                          /\ \A j \in DOMAIN rs : rs[j].kind = "raised" => i <= j
         IN  [kind |-> "raised", error |-> rs[first].error]
    ELSE [kind |-> "returned", value |-> PyList([i \in DOMAIN rs |-> rs[i].value])]

RECURSIVE model_dump(_)
\* _serialize_with_type: handler(self), field by field, then the tag
model_dump(V) ==
    LET f == V.fields
        data ==
          CASE V.cls = "Content" ->
                 LET d == serialize_data(f.data) IN
                 IF d.kind = "raised" THEN d
                 ELSE [kind |-> "returned",
                       value |-> [tool_call_id |-> f.tool_call_id, name |-> f.name,
                                  data |-> d.value]]
            [] V.cls = "Observation" ->
                 LET cs == Gather([i \in DOMAIN f.contents |-> model_dump(f.contents[i])]) IN
                 IF cs.kind = "raised" THEN cs
                 ELSE [kind |-> "returned", value |-> [contents |-> cs.value]]
            [] V.cls = "EnvironmentOutput" ->
                 LET o == model_dump(f.obs) IN
                 IF o.kind = "raised" THEN o
                 ELSE [kind |-> "returned",
                       value |-> [obs |-> o.value, reward |-> f.reward, done |-> f.done,
                                  info |-> f.info]]
            [] OTHER -> [kind |-> "returned", value |-> f]
    IN  IF data.kind = "raised" THEN data
        ELSE [kind |-> "returned", value |-> PyDict(WithType(V, data.value))]

SchemaMismatch == "ValidationError"

UnresolvableType == "ModuleNotFoundError or AttributeError"

\* the fields each class requires of a mapping
RequiredFields ==
    [cls \in Classes |->
        CASE cls = "Content" -> {"data"}
          [] cls = "Observation" -> {}
          [] cls = "EnvironmentOutput" -> {"obs"}
          [] cls = "Action" -> {"name"}
          [] OTHER -> {}]

RECURSIVE model_validate(_, _)
\* cls.model_validate(value).  `left` is the caller's value as validation leaves it.
model_validate(cls, value) ==
    IF value.py = "dict" /\ "_type" \in DOMAIN value.items
    THEN \* _deserialize_with_type: value.pop("_type"), the class it names validates
         LET type_path == value.items["_type"]
             popped == PyDict(Pop(value.items, "_type"))
             actual_cls == Resolve(type_path)
         IN  IF actual_cls = None
             THEN [kind |-> "raised", error |-> UnresolvableType, left |-> popped]
             ELSE model_validate(actual_cls, popped)
    ELSE \* handler(value): the fields of cls
    IF value.py # "dict" \/ ~(RequiredFields[cls] \subseteq DOMAIN value.items)
    THEN [kind |-> "raised", error |-> SchemaMismatch, left |-> value]
    ELSE
    LET m == value.items IN
    CASE cls = "Content" ->
           LET d == deserialize_data(m.data) IN
           IF d.kind = "raised"
           THEN [kind |-> "raised", error |-> d.error, left |-> value]
           ELSE [kind |-> "returned", left |-> value,
                 value |-> New("Content",
                             [tool_call_id |-> IF "tool_call_id" \in DOMAIN m
                                               THEN m.tool_call_id ELSE None,
                              name |-> IF "name" \in DOMAIN m THEN m.name ELSE None,
                              data |-> d.value])]
      [] cls = "Observation" ->
           LET items == IF "contents" \in DOMAIN m THEN m.contents.elems ELSE <<>>
               rs == [i \in DOMAIN items |-> model_validate("Content", items[i])]
               left == IF "contents" \in DOMAIN m
                       THEN PyDict([m EXCEPT !.contents =
                                      PyList([i \in DOMAIN rs |-> rs[i].left])])
                       ELSE value
               cs == Gather(rs)
           IN  IF cs.kind = "raised"
               THEN [kind |-> "raised", error |-> cs.error, left |-> left]
               ELSE [kind |-> "returned", left |-> left,
                     value |-> New("Observation", [contents |-> cs.value.elems])]
      [] cls = "EnvironmentOutput" ->
           LET o == model_validate("Observation", m.obs)
               left == PyDict([m EXCEPT !.obs = o.left])
           IN  IF o.kind = "raised"
               THEN [kind |-> "raised", error |-> o.error, left |-> left]
               ELSE [kind |-> "returned", left |-> left,
                     value |-> New("EnvironmentOutput",
                                 [obs |-> o.value,
                                  reward |-> IF "reward" \in DOMAIN m THEN m.reward
                                             ELSE DefaultReward,
                                  done |-> IF "done" \in DOMAIN m THEN m.done ELSE FALSE,
                                  info |-> IF "info" \in DOMAIN m THEN m.info
                                           ELSE EmptyDict])]
      [] cls = "Action" ->
           [kind |-> "returned", left |-> value,
            value |-> New("Action",
                        [id |-> IF "id" \in DOMAIN m THEN m.id ELSE None,
                         name |-> m.name,
                         arguments |-> IF "arguments" \in DOMAIN m THEN m.arguments
                                       ELSE EmptyDict])]
      [] OTHER ->
           \* TypedBaseModel declares no field and ignores the keys it is given
           [kind |-> "returned", left |-> value,
            value |-> New("TypedBaseModel", [none \in {} |-> none])]

-----------------------------------------------------------------------------
(* The instances that are serialized *)

\* what the data of a Content can be: text, text that bears the image prefix,
\* an image, a mapping, a sequence, a nested model
DataValues ==
    { Str(<<"hello">>), Str(<<ImagePrefix, "hello">>), PyImage("img1"),
      PyDict([k |-> "v"]), PyList(<<"a">>), PyModel("model1") }

TypedContents ==
    { New("Content", [tool_call_id |-> id, name |-> None, data |-> d])
        : id \in {None, "call_1"}, d \in DataValues }

ObservationsOf(n) ==
    { New("Observation", [contents |-> cs])
        : cs \in UNION {[1..k -> TypedContents] : k \in 0..n} }

TypedValues ==
    TypedContents
    \cup ObservationsOf(MaxContents)
    \cup { New("EnvironmentOutput", [obs |-> o, reward |-> r, done |-> d, info |-> EmptyDict])
             : o \in ObservationsOf(1), r \in {DefaultReward, 10}, d \in BOOLEAN }
    \cup { New("Action", Action(id, n)) : id \in {None, "call_1"}, n \in {"click", "final_step"} }

TypesInit ==
    /\ obj \in TypedValues
    /\ declared \in {obj.cls, "TypedBaseModel"}
    /\ wire = NoReturn
    /\ back = NoReturn
    /\ validations = 0

\* wire = obj.model_dump()
Serialize ==
    /\ wire = NoReturn
    /\ wire' = model_dump(obj)
    /\ UNCHANGED <<obj, declared, back, validations>>
    /\ UNCHANGED <<envVars, trajVars, msgVars, obsVars>>

\* a deserialization that works on a copy of the caller's mapping
Deserialize_OnCopy ==
    /\ wire.kind = "returned"
    /\ validations < MaxValidations
    /\ LET r == model_validate(declared, wire.value) IN
        /\ back' = IF r.kind = "raised"
                   THEN [kind |-> "raised", error |-> r.error]
                   ELSE [kind |-> "returned", value |-> r.value]
        /\ wire' = wire
    /\ validations' = validations + 1
    /\ UNCHANGED <<obj, declared>>
    /\ UNCHANGED <<envVars, trajVars, msgVars, obsVars>>

\* back = declared.model_validate(wire), which pops the tags of wire
Deserialize ==
    /\ wire.kind = "returned"
    /\ validations < MaxValidations
    /\ LET r == model_validate(declared, wire.value) IN
        /\ back' = IF r.kind = "raised"
                   THEN [kind |-> "raised", error |-> r.error]
                   ELSE [kind |-> "returned", value |-> r.value]
        /\ wire' = [kind |-> "returned", value |-> r.left]
    /\ validations' = validations + 1
    /\ UNCHANGED <<obj, declared>>
    /\ UNCHANGED <<envVars, trajVars, msgVars, obsVars>>

InitTypes == TypesInit /\ NoEnvironment /\ NoTrajectory /\ NoMessages /\ NoObservations

TypesNext == Serialize \/ Deserialize

SpecTypes == InitTypes /\ [][TypesNext]_vars

-----------------------------------------------------------------------------
(* C7: Type-preserving round trip.  Serializing any TypedBaseModel instance V
   succeeds, and deserializing the result against V's declared type gives an
   object of V's runtime class that equals V field for field, also for the
   instances nested in V. *)
C7_RoundTrip ==
    /\ wire.kind # "raised"
    /\ validations = 1 => back = [kind |-> "returned", value |-> obj]

-----------------------------------------------------------------------------
(* C11: Serializing a Content whose data is no image (text, a mapping, a
   sequence, a nested model) succeeds and emits the data in its own form: text,
   mapping and sequence as they are, a nested model as a mapping; the image
   encoding is applied to images only. *)
C11_NativeSerialization ==
    (obj.cls = "Content" /\ wire.kind # "none" /\ obj.fields.data.py # "Image") =>
        /\ wire.kind = "returned"
        /\ obj.fields.data.py \in {"str", "dict", "list"} =>
               wire.value.items.data = obj.fields.data
        /\ obj.fields.data.py = "BaseModel" => wire.value.items.data.py = "dict"

\* what does hold: text is emitted as it is and an image as prefixed base64
C11_TextAndImage ==
    (obj.cls = "Content" /\ wire.kind # "none") =>
        /\ obj.fields.data.py = "str" =>
               (wire.kind = "returned" /\ wire.value.items.data = obj.fields.data)
        /\ obj.fields.data.py = "Image" =>
               /\ wire.kind = "returned"
               /\ wire.value.items.data =
                      [py |-> "str",
                       text |-> <<"data:image/png;base64,",
                                  "base64(png(" \o obj.fields.data.image \o "))">>]
        /\ obj.fields.data.py \notin {"str", "Image"} => wire.kind = "raised"

-----------------------------------------------------------------------------
(* core.py: Content.to_message *)

\* most calls of to_message on one Content
MaxMessages == 2

\* `if x:` for a str | None attribute: None and the empty string are false
Truthy(x) == x \notin Falsy

\* the content of the message by the type of the data: a list of typed parts
\* for an image, JSON text for a model, a mapping or a sequence, str(data)
\* otherwise; `named` is the name that is put in front as f"##{name}\n"
msg_content(self) ==
    LET named == IF Truthy(self.name) THEN self.name ELSE None IN
    CASE self.data.py = "Image" ->
           LET image_base64 == as_base64_image_str(self.data).value
               image == [type |-> "image_url", text |-> image_base64.text]
           IN  [form |-> "parts",
                parts |-> IF Truthy(self.name)
                          THEN <<[type |-> "text", text |-> <<self.name>>], image>>
                          ELSE <<image>>]
      [] self.data.py = "BaseModel" ->
           [form |-> "model_dump_json", model |-> self.data.model]
      [] self.data.py \in {"dict", "list"} ->
           [form |-> "json.dumps", named |-> named, value |-> self.data]
      [] OTHER ->
           [form |-> "str", named |-> named, text |-> self.data.text]

\* role = "tool" if self.tool_call_id else "user"; the key tool_call_id is set
\* under the same test
to_message(self) ==
    IF Truthy(self.tool_call_id)
    THEN [role |-> "tool", content |-> msg_content(self),
          tool_call_id |-> self.tool_call_id]
    ELSE [role |-> "user", content |-> msg_content(self)]

\* the Content instances to_message is called on
MessageContents ==
    { New("Content", [tool_call_id |-> id, name |-> n, data |-> d])
        : id \in {None, "", "call_1"}, n \in {None, "", "screenshot"}, d \in DataValues }

ContentInit ==
    /\ content \in MessageContents
    /\ messages = <<>>

\* messages.append(content.to_message())
ToMessage ==
    /\ Len(messages) < MaxMessages
    /\ messages' = Append(messages, to_message(content.fields))
    /\ content' = content
    /\ UNCHANGED <<envVars, trajVars, typeVars, obsVars>>

InitContent == ContentInit /\ NoEnvironment /\ NoTrajectory /\ NoTypes /\ NoObservations

ContentNext == ToMessage

SpecContent == InitContent /\ [][ContentNext]_vars

-----------------------------------------------------------------------------
(* C12: Content.to_message gives role "tool" and the key tool_call_id whenever
   the Content's tool_call_id is set, that is any string and not None, and
   role "user" without the key whenever it is None; called again on the same
   Content it gives the same message. *)
C12_RoleFollowsToolCallId ==
    \A i \in DOMAIN messages :
        LET m == messages[i]
            id == content.fields.tool_call_id
        IN  /\ id # "None" =>
                   /\ m.role = "tool"
                   /\ "tool_call_id" \in DOMAIN m
                   /\ m.tool_call_id = id
            /\ id = "None" =>
                   /\ m.role = "user"
                   /\ "tool_call_id" \notin DOMAIN m
            /\ \A j \in DOMAIN messages : messages[j] = m

\* what does hold: the role follows the truth value of tool_call_id, so the
\* empty string counts as not set
C12_RoleFollowsTruthValue ==
    \A i \in DOMAIN messages :
        LET m == messages[i]
            id == content.fields.tool_call_id
        IN  /\ id \notin {"None", ""} =>
                   /\ m.role = "tool"
                   /\ "tool_call_id" \in DOMAIN m
                   /\ m.tool_call_id = id
            /\ id \in {"None", ""} =>
                   /\ m.role = "user"
                   /\ "tool_call_id" \notin DOMAIN m
            /\ \A j \in DOMAIN messages : messages[j] = m

-----------------------------------------------------------------------------
(* C13: Aggregation.  The obs of the EnvironmentOutput step returns is
   task.obs_postprocess applied to the merged observation: the contents of the
   Observations execute_action returned in this call, in dispatch order,
   followed by the stop message when a stop was accepted, nothing dropped,
   duplicated or reordered.  validate_task, when it is called, is given that
   merged observation, before obs_postprocess is called. *)
C13_Aggregation ==
    (op = "step" /\ ret.kind = "output") =>
        LET executed == Executed
            results == [i \in DOMAIN executed |-> executed[i].obs.contents[1]]
            stopped == \E k \in DOMAIN args : StopAnswered(k, "True")
            merged == IF stopped
                      THEN Append(results, [tool_call_id |-> "None", name |-> "None",
                                            data |-> "Task finished by the agent."])
                      ELSE results
        IN  /\ \A i \in DOMAIN executed :
                   /\ executed[i].pos = i
                   /\ Len(executed[i].obs.contents) = 1
                   /\ merged[i].tool_call_id = args[i].id
            /\ ret.out.obs = obs_postprocess(task, [contents |-> merged])
            /\ Cardinality(CallsOf("obs_postprocess")) = 1
            /\ \A h \in CallsOf("obs_postprocess") :
                   /\ calls[h].obs = [contents |-> merged]
                   /\ h = Len(calls)
            /\ \A j \in CallsOf("validate_task") :
                   /\ calls[j].obs = [contents |-> merged]
                   /\ j = Len(calls) - 1

\* step([click, click, final_step]) of a task with an obs_postprocess of its
\* own: the first click returned a text, the second raised, the stop was
\* accepted, the merged three contents were validated and post-processed
C13_Witness ==
    /\ op = "step"
    /\ ret.kind = "output"
    /\ task.postprocess = "redact"
    /\ Len(args) = 3
    /\ StopAnswered(3, "True")
    /\ Len(Executed) = 2
    /\ Executed[1].obs.contents[1].data = "clicked"
    /\ Executed[2].obs.contents[1].data = "Error executing action click: boom"
    /\ CallsOf("validate_task") # {}
    /\ Len(ret.out.obs.contents) = 4
    /\ ret.out.obs.contents[1].data = "clicked"
    /\ ret.out.obs.contents[3].data = "Task finished by the agent."

-----------------------------------------------------------------------------
(* C14: The done step returns is true exactly when a stop was accepted in the
   call or task.finished() answered true after the loop.  finished() is called
   at most once and only after every action of the call has been processed
   (dispatched, or accepted as a stop, which ends the loop): whatever the task
   has become in the middle of the sequence, the later actions are still
   dispatched. *)
C14_DoneAfterLoop ==
    op = "step" =>
        LET stopped == \E k \in DOMAIN args : StopAnswered(k, "True")
            finished == \E j \in CallsOf("finished") : calls[j].val = "True"
        IN  /\ ret.kind = "output" => (ret.out.done <=> (stopped \/ finished))
            /\ Cardinality(CallsOf("finished")) <= 1
            /\ \A j \in CallsOf("finished") :
                   /\ ret.kind = "output"
                   /\ ~stopped
                   /\ \A i \in DOMAIN args : DispatchEnded(i, "returned")
                   /\ \A e \in DOMAIN calls :
                          calls[e].call \in {"execute_action", "tool_method",
                                             "accept_agent_stop"} => e < j
            /\ (ret.kind = "output" /\ ~stopped) => CallsOf("finished") # {}

\* three actions were all dispatched, then finished() answered true and step
\* returned done without any stop
C14_Witness ==
    /\ op = "step"
    /\ Len(args) = 3
    /\ \A i \in 1..3 : args[i].name = "click" /\ DispatchEnded(i, "returned")
    /\ \E j \in CallsOf("finished") : calls[j].val = "True" /\ j = 7
    /\ ret.kind = "output"
    /\ ret.out.done

-----------------------------------------------------------------------------
(* C15: The Environment keeps no lifecycle state.  Between calls, step, reset
   and close can all be called wherever the caller is in the lifecycle: before
   reset, after reset, after a step that returned done, after close.  A step
   made there runs the loop as anywhere else: it returns an EnvironmentOutput,
   or raises what execute_action raised for the action it dispatched last (the
   lookup error, or the error of making a Content of what the method
   returned), and no error of its own. *)
C15_NoLifecycleState ==
    /\ Idle => (ENABLED Step /\ ENABLED Reset /\ ENABLED Close)
    /\ op = "step" =>
           /\ ret.kind \in {"output", "raised"}
           /\ ret.kind = "output" =>
                  /\ \A j \in CallsOf("execute_action") : calls[j].val = "returned"
                  /\ CallsOf("obs_postprocess") = {Len(calls)}
           /\ ret.kind = "raised" =>
                  /\ calls # <<>>
                  /\ calls[Len(calls)].call = "execute_action"
                  /\ calls[Len(calls)].val = "raised"
                  /\ ret.error = calls[Len(calls)].data
                  /\ LET m == get_action_method(tool, args[calls[Len(calls)].pos]) IN
                         IF m.raised
                         THEN ret.error = m.error
                         ELSE /\ MethodCalled(calls[Len(calls)].pos)
                              /\ ret.error \in {"ValidationError", "UnidentifiedImageError"}
    /\ op = "reset" => ret.kind = "output"

\* a step made after close, on a tool that has released its resources: the
\* action was dispatched, the observation validated and returned
C15_Witness ==
    /\ op = "step"
    /\ phase = "closed"
    /\ ~tool.held
    /\ Len(args) = 2
    /\ DispatchEnded(1, "returned")
    /\ DispatchEnded(2, "returned")
    /\ CallsOf("validate_task") # {}
    /\ ret.kind = "output"

\* a step made after a step that returned done
C15_StepAfterDone ==
    /\ op = "step"
    /\ phase = "terminal"
    /\ DispatchEnded(1, "returned")
    /\ ret.kind = "output"

\* a step made before the first reset
C15_StepBeforeReset ==
    /\ op = "step"
    /\ phase = "unready"
    /\ DispatchEnded(1, "returned")
    /\ ret.kind = "output"

-----------------------------------------------------------------------------
(* core.py: Observation.__add__ *)

\* longest contents list an addition or an append may build
MaxMerged == 4

\* the Observation objects there can be; o3 is not allocated at the start
Refs == {"o1", "o2", "o3"}

\* the caller's variables
Names == {"a", "b", "c"}

\* the contents are written by their data alone
ContentLists == UNION {[1..n -> {"x", "y"}] : n \in 0..MaxContents}

\* an addition that leaves both operands alone and returns a new Observation
__add__Pure(h, self, other) ==
    LET new == IF Refs \ DOMAIN h = {} THEN "o3" ELSE CHOOSE o \in Refs \ DOMAIN h : TRUE
    IN  [heap |-> [o \in DOMAIN h \cup {new} |->
                      IF o = new THEN h[self] \o h[other] ELSE h[o]],
         ref |-> new]

\* __add__: self.contents += other.contents extends the list of self in place
\* (by a copy of itself when other is self); return self
__add__(h, self, other) ==
    [heap |-> [h EXCEPT ![self] = h[self] \o h[other]],
     ref |-> self]

ObsInit ==
    /\ heap \in [{"o1", "o2"} -> ContentLists]
    /\ bind = [a |-> "o1", b |-> "o2", c |-> None]
    /\ last = [op |-> "new"]

\* c = l + r, for l and r any of the caller's variables
ObsAdd ==
    \E l, r \in Names :
        /\ bind[l] # None /\ bind[r] # None
        /\ Len(heap[bind[l]]) + Len(heap[bind[r]]) <= MaxMerged
        /\ LET res == __add__(heap, bind[l], bind[r]) IN
            /\ heap' = res.heap
            /\ bind' = [bind EXCEPT !.c = res.ref]
        /\ last' = [op |-> "add", left |-> bind[l], right |-> bind[r]]
        /\ UNCHANGED <<envVars, trajVars, typeVars, msgVars>>

\* n.contents.append(item), for n any of the caller's variables
ObsAppend ==
    \E n \in Names :
        /\ bind[n] # None
        /\ Len(heap[bind[n]]) < MaxMerged
        /\ heap' = [heap EXCEPT ![bind[n]] = Append(@, "z")]
        /\ bind' = bind
        /\ last' = [op |-> "append", via |-> n]
        /\ UNCHANGED <<envVars, trajVars, typeVars, msgVars>>

InitObservation == ObsInit /\ NoEnvironment /\ NoTrajectory /\ NoTypes /\ NoMessages

ObsNext == ObsAdd \/ ObsAppend

SpecObservation == InitObservation /\ [][ObsNext]_vars

-----------------------------------------------------------------------------
(* C16: c = a + b appends the contents of b after those of a, both in their
   order, in the list of a itself; it returns a, not a new Observation, and
   leaves every other Observation, the right operand b among them, as it was
   (in a + a the right operand is the left one, whose contents are doubled).
   So c is a, and what is appended to the contents of c afterwards is
   appended to the contents of a. *)
C16_AddMutatesLeft ==
    [][ /\ last'.op = "add" =>
               LET l == last'.left
                   r == last'.right
               IN  /\ heap'[l] = heap[l] \o heap[r]
                   /\ bind'.c = l
                   /\ DOMAIN heap' = DOMAIN heap
                   /\ \A o \in DOMAIN heap \ {l} : heap'[o] = heap[o]
                   /\ r # l => heap'[r] = heap[r]
        /\ (last'.op = "append" /\ last'.via = "c") =>
               /\ \E n \in {"a", "b"} : bind[n] = bind.c
               /\ \A n \in {"a", "b"} :
                      bind[n] = bind.c =>
                          heap'[bind'[n]] = Append(heap[bind[n]], "z")
      ]_vars

\* c = a + b with a holding <<x>> and b holding <<y, x>>, then
\* c.contents.append(z): a holds <<x, y, x, z>> and b what it held
C16_Witness ==
    /\ last = [op |-> "append", via |-> "c"]
    /\ bind = [a |-> "o1", b |-> "o2", c |-> "o1"]
    /\ heap = [o \in {"o1", "o2"} |->
                  IF o = "o1" THEN <<"x", "y", "x", "z">> ELSE <<"y", "x">>]

-----------------------------------------------------------------------------
(* tool.py: Tool.execute_action called on its own *)

\* what a tool method can return: the values whose truth value is false, and
\* true ones of every type
ReturnValues ==
    Falsy \cup { "clicked", Int5, "True", ListValue, MappingValue, ModelValue }
          \cup { ImageValue(img) : img \in Images } \cup PrefixedTexts

\* what a tool method can do when it is invoked
AnyOutcomes ==
    { [kind |-> "return", value |-> v] : v \in ReturnValues }
    \cup { [kind |-> "raise", value |-> "boom"] }

\* as OutcomesOf, with a method of the tool class returning any of ReturnValues
AnyOutcomesOf(t, name) ==
    IF name \in t.methods THEN AnyOutcomes ELSE OutcomesOf(t, name)

ToolInit ==
    /\ task = [validate_per_step |-> FALSE, postprocess |-> "identity"]
    /\ tool \in {[cls |-> c.cls, members |-> c.members, methods |-> c.methods,
                  held |-> TRUE] : c \in ToolClasses}
    /\ op = "idle"
    /\ args = <<>>
    /\ calls = <<>>
    /\ ret = NoReturn
    /\ phase = "none"

\* tool.execute_action(action)
ExecuteAction ==
    /\ Idle
    /\ \E id \in {None, CallIds[1]}, n \in ActionNames :
        \E o \in AnyOutcomesOf(tool, n) :
            LET action == Action(id, n)
                r == execute_action(tool, action, o)
            IN  /\ op' = "execute_action"
                /\ args' = <<action>>
                /\ calls' = DispatchCalls(tool, action, 1, o, r)
                /\ ret' = IF r.raised
                          THEN [kind |-> "raised", error |-> r.error]
                          ELSE [kind |-> "returned", obs |-> r.obs]
    /\ UNCHANGED <<task, tool, phase>>
    /\ UNCHANGED <<trajVars, typeVars, msgVars, obsVars>>

InitTool == ToolInit /\ NoTrajectory /\ NoTypes /\ NoMessages /\ NoObservations

ToolNext == ExecuteAction \/ Return

SpecTool == InitTool /\ [][ToolNext]_vars

-----------------------------------------------------------------------------
(* C17: When the tool method returns, execute_action returns an Observation
   of one Content tagged with the action's id, whose data is the text
   "Success" for every return value whose truth value is false (None, the
   empty string, 0, False, an empty list or mapping) and the return value
   itself, unchanged, for every other one. *)
C17_FalsyIsSuccess ==
    op = "execute_action" =>
        \A j \in CallsOf("tool_method") :
            calls[j].val = "return" =>
                /\ ret.kind = "returned"
                /\ ret.obs.contents =
                       << [tool_call_id |-> args[1].id, name |-> "None",
                           data |-> IF calls[j].data \in
                                         {"None", "", "int(0)", "False", "list()", "dict()"}
                                    THEN "Success"
                                    ELSE calls[j].data] >>

\* what does hold: a false value gives "Success"; a true value that is text
\* without the image prefix, a mapping, a sequence, a model or an image is
\* passed on as it is; a text with the image prefix is decoded first; any
\* other value makes execute_action raise
C17_ValidatedResult ==
    op = "execute_action" =>
        \A j \in CallsOf("tool_method") :
            calls[j].val = "return" =>
                LET v == calls[j].data
                    prefixed == {"data:image/png;base64,base64(png(img1))",
                                 "data:image/png;base64,hello"}
                    rejected == {"int(5)", "True"}
                    data == IF v \in {"None", "", "int(0)", "False", "list()", "dict()"}
                            THEN "Success"
                            ELSE IF v = "data:image/png;base64,base64(png(img1))"
                            THEN "Image(img1)"
                            ELSE v
                IN  /\ v \in rejected => ret = [kind |-> "raised", error |-> "ValidationError"]
                    /\ v = "data:image/png;base64,hello" => ret.kind = "raised"
                    /\ v \notin rejected \cup {"data:image/png;base64,hello"} =>
                           /\ ret.kind = "returned"
                           /\ ret.obs.contents =
                                  << [tool_call_id |-> args[1].id, name |-> "None",
                                      data |-> data] >>

\* the method returned 0 and the Content holds "Success"
C17_ZeroIsSuccess ==
    /\ op = "execute_action"
    /\ \E j \in CallsOf("tool_method") : calls[j].val = "return" /\ calls[j].data = "int(0)"
    /\ ret.kind = "returned"
    /\ ret.obs.contents[1].data = "Success"
    /\ ret.obs.contents[1].tool_call_id = "call_1"

-----------------------------------------------------------------------------
(* C18: Deserializing a tagged mapping removes the key "_type" from the
   caller's own mapping (the tags of the mappings nested in it too).  The
   first deserialization reads the tag and gives an instance of the class it
   names, whatever the declared type; the same mapping deserialized again no
   longer carries the tag and is validated against the declared type: against
   the abstract TypedBaseModel that gives a bare TypedBaseModel, not the
   original subtype. *)
C18_TagPopped ==
    /\ (validations = 0 /\ wire.kind = "returned") =>
           /\ "_type" \in DOMAIN wire.value.items
           /\ wire.value.items["_type"] = "cube.core." \o obj.cls
    /\ validations >= 1 =>
           /\ wire.kind = "returned"
           /\ "_type" \notin DOMAIN wire.value.items
           /\ obj.cls = "Observation" =>
                  \A i \in DOMAIN wire.value.items.contents.elems :
                      "_type" \notin DOMAIN wire.value.items.contents.elems[i].items
           /\ obj.cls = "EnvironmentOutput" =>
                  "_type" \notin DOMAIN wire.value.items.obs.items
    /\ (validations = 1 /\ back.kind = "returned") => back.value.cls = obj.cls
    /\ (validations >= 2 /\ back.kind = "returned") => back.value.cls = declared
    /\ (validations >= 2 /\ declared = "TypedBaseModel") =>
           /\ back.kind = "returned"
           /\ back.value.cls = "TypedBaseModel"
           /\ back.value.cls # obj.cls

\* an Observation of one Content, serialized and deserialized twice against
\* TypedBaseModel: the second time gives a bare TypedBaseModel
C18_Witness ==
    /\ validations = 2
    /\ declared = "TypedBaseModel"
    /\ obj.cls = "Observation"
    /\ Len(obj.fields.contents) = 1
    /\ wire.kind = "returned"
    /\ DOMAIN wire.value.items = {"contents"}
    /\ back.kind = "returned"
    /\ back.value.cls = "TypedBaseModel"

\* the first deserialization against TypedBaseModel gave the Observation back
C18_FirstTime ==
    /\ validations = 1
    /\ declared = "TypedBaseModel"
    /\ obj.cls = "Observation"
    /\ Len(obj.fields.contents) = 1
    /\ back = [kind |-> "returned", value |-> obj]

=============================================================================
